---- MODULE Spec2Model ----
(***************************************************************************)
(* rusty-k: a canonical k-mer counter (src/src/main.rs) and a histogram    *)
(* builder over its output (src/src/histogram.rs).                         *)
(*                                                                         *)
(* A Rust String is a tuple of one-character strings, <<"A","C">>, so that *)
(* its bytes can be indexed, compared and hashed.  A u64 is a tuple of its *)
(* eight bytes, least significant first: TLC's integers are 32 bits wide.  *)
(***************************************************************************)
EXTENDS Integers, Sequences, FiniteSets, TLC

(***************************************************************************)
(* Bounds of the model.                                                    *)
(***************************************************************************)
MaxLines == 3
MaxThreads == 3
MaxK == 4
MaxIngestLines == 4
MaxTokens == 6
MaxCount == 3
MaxSequences == 4
MaxShardThreads == 4
MaxFairSequences == 3
MaxFairThreads == 3
MaxReadLines == 3
MaxReadThreads == 3

(***************************************************************************)
(* Bytes of the characters the inputs are written with (str::as_bytes).    *)
(***************************************************************************)
Byte ==
  [c \in {"#", "+", "0", "1", "2", "3", "4", "5", "6", "7", "8", "9",
          ">", "@", "A", "C", "G", "I", "N", "T", "q", " "} |->
     CASE c = " " -> 32 [] c = "#" -> 35 [] c = "+" -> 43
       [] c = "0" -> 48 [] c = "1" -> 49 [] c = "2" -> 50 [] c = "3" -> 51
       [] c = "4" -> 52 [] c = "5" -> 53 [] c = "6" -> 54 [] c = "7" -> 55
       [] c = "8" -> 56 [] c = "9" -> 57
       [] c = ">" -> 62 [] c = "@" -> 64 [] c = "A" -> 65 [] c = "C" -> 67
       [] c = "G" -> 71 [] c = "I" -> 73 [] c = "N" -> 78 [] c = "T" -> 84
       [] c = "q" -> 113]

(***************************************************************************)
(* 64-bit unsigned arithmetic on eight little-endian bytes.                *)
(***************************************************************************)
Pow2 == <<1, 2, 4, 8, 16, 32, 64, 128, 256>>

\* Bit t of the byte a
Bit(a, t) == (a \div Pow2[t + 1]) % 2

XorByte(a, b) ==
  ((Bit(a, 0) + Bit(b, 0)) % 2) + 2 * ((Bit(a, 1) + Bit(b, 1)) % 2)
  + 4 * ((Bit(a, 2) + Bit(b, 2)) % 2) + 8 * ((Bit(a, 3) + Bit(b, 3)) % 2)
  + 16 * ((Bit(a, 4) + Bit(b, 4)) % 2) + 32 * ((Bit(a, 5) + Bit(b, 5)) % 2)
  + 64 * ((Bit(a, 6) + Bit(b, 6)) % 2) + 128 * ((Bit(a, 7) + Bit(b, 7)) % 2)

\* x ^ y
Xor64(x, y) ==
  <<XorByte(x[1], y[1]), XorByte(x[2], y[2]), XorByte(x[3], y[3]),
    XorByte(x[4], y[4]), XorByte(x[5], y[5]), XorByte(x[6], y[6]),
    XorByte(x[7], y[7]), XorByte(x[8], y[8])>>

\* Byte j of x, 0 outside 1..8
ByteAt(x, j) == IF j \in 1..8 THEN x[j] ELSE 0

\* Byte j of x >> n
ShrByte(x, n, j) ==
  LET q == n \div 8
      r == n % 8
  IN  (ByteAt(x, j + q) \div Pow2[r + 1])
      + (ByteAt(x, j + q + 1) % Pow2[r + 1]) * Pow2[9 - r]

\* x >> n
Shr64(x, n) ==
  <<ShrByte(x, n, 1), ShrByte(x, n, 2), ShrByte(x, n, 3), ShrByte(x, n, 4),
    ShrByte(x, n, 5), ShrByte(x, n, 6), ShrByte(x, n, 7), ShrByte(x, n, 8)>>

\* Byte j of x << n
ShlByte(x, n, j) ==
  LET q == n \div 8
      r == n % 8
  IN  (ByteAt(x, j - q) % Pow2[9 - r]) * Pow2[r + 1]
      + (ByteAt(x, j - q - 1) \div Pow2[9 - r])

\* x.rotate_left(n), 0 < n < 64: (x << n) | (x >> (64 - n))
Rotl64(x, n) ==
  <<ShlByte(x, n, 1) + ShrByte(x, 64 - n, 1), ShlByte(x, n, 2) + ShrByte(x, 64 - n, 2),
    ShlByte(x, n, 3) + ShrByte(x, 64 - n, 3), ShlByte(x, n, 4) + ShrByte(x, 64 - n, 4),
    ShlByte(x, n, 5) + ShrByte(x, 64 - n, 5), ShlByte(x, n, 6) + ShrByte(x, 64 - n, 6),
    ShlByte(x, n, 7) + ShrByte(x, 64 - n, 7), ShlByte(x, n, 8) + ShrByte(x, 64 - n, 8)>>

\* x.wrapping_add(y), byte by byte with the carry
Add64(x, y) ==
  LET s1 == x[1] + y[1]
      s2 == x[2] + y[2] + (s1 \div 256)
      s3 == x[3] + y[3] + (s2 \div 256)
      s4 == x[4] + y[4] + (s3 \div 256)
      s5 == x[5] + y[5] + (s4 \div 256)
      s6 == x[6] + y[6] + (s5 \div 256)
      s7 == x[7] + y[7] + (s6 \div 256)
      s8 == x[8] + y[8] + (s7 \div 256)
  IN  <<s1 % 256, s2 % 256, s3 % 256, s4 % 256, s5 % 256, s6 % 256, s7 % 256,
        s8 % 256>>

\* x.wrapping_mul(y): the columns of the long multiplication, with the carry
Mul64(x, y) ==
  LET s1 == x[1] * y[1]
      s2 == x[1] * y[2] + x[2] * y[1] + (s1 \div 256)
      s3 == x[1] * y[3] + x[2] * y[2] + x[3] * y[1] + (s2 \div 256)
      s4 == x[1] * y[4] + x[2] * y[3] + x[3] * y[2] + x[4] * y[1] + (s3 \div 256)
      s5 == x[1] * y[5] + x[2] * y[4] + x[3] * y[3] + x[4] * y[2] + x[5] * y[1]
            + (s4 \div 256)
      s6 == x[1] * y[6] + x[2] * y[5] + x[3] * y[4] + x[4] * y[3] + x[5] * y[2]
            + x[6] * y[1] + (s5 \div 256)
      s7 == x[1] * y[7] + x[2] * y[6] + x[3] * y[5] + x[4] * y[4] + x[5] * y[3]
            + x[6] * y[2] + x[7] * y[1] + (s6 \div 256)
      s8 == x[1] * y[8] + x[2] * y[7] + x[3] * y[6] + x[4] * y[5] + x[5] * y[4]
            + x[6] * y[3] + x[7] * y[2] + x[8] * y[1] + (s7 \div 256)
  IN  <<s1 % 256, s2 % 256, s3 % 256, s4 % 256, s5 % 256, s6 % 256, s7 % 256,
        s8 % 256>>

\* A value below 2^31 as a u64
U64(n) ==
  <<n % 256, (n \div 256) % 256, (n \div 65536) % 256, (n \div 16777216) % 256,
    0, 0, 0, 0>>

(***************************************************************************)
(* xxh3_64 of the xxhash-rust crate (XXH3 with the default secret and seed *)
(* 0), for inputs of 1 to 8 bytes.                                         *)
(***************************************************************************)
\* read_32le(secret, 0) ^ read_32le(secret, 4)
SECRET_FLIP_1to3 == <<155, 90, 39, 135, 0, 0, 0, 0>>
\* read_64le(secret, 8) ^ read_64le(secret, 16)
SECRET_FLIP_4to8 == <<162, 213, 236, 197, 116, 177, 58, 199>>
\* 0xC2B2AE3D27D4EB4F
PRIME64_2 == <<79, 235, 212, 39, 61, 174, 178, 194>>
\* 0x165667B19E3779F9
PRIME64_3 == <<249, 121, 55, 158, 177, 103, 86, 22>>
\* 0x9FB21C651E98DF25
PRIME_MX2 == <<37, 223, 152, 30, 101, 28, 178, 159>>

avalanche(h) ==
  LET h1 == Xor64(h, Shr64(h, 33))
      h2 == Mul64(h1, PRIME64_2)
      h3 == Xor64(h2, Shr64(h2, 29))
      h4 == Mul64(h3, PRIME64_3)
  IN  Xor64(h4, Shr64(h4, 32))

rrmxmx(h, len) ==
  LET h1 == Xor64(h, Xor64(Rotl64(h, 49), Rotl64(h, 24)))
      h2 == Mul64(h1, PRIME_MX2)
      h3 == Xor64(h2, Add64(Shr64(h2, 35), U64(len)))
      h4 == Mul64(h3, PRIME_MX2)
  IN  Xor64(h4, Shr64(h4, 28))

xxh3_64_1to3(input) ==
  LET len == Len(input)
      c1 == Byte[input[1]]
      c2 == Byte[input[(len \div 2) + 1]]
      c3 == Byte[input[len]]
      \* (c1 << 16) | (c2 << 24) | c3 | (len << 8)
      combined == <<c3, len, c1, c2, 0, 0, 0, 0>>
  IN  avalanche(Xor64(combined, SECRET_FLIP_1to3))

xxh3_64_4to8(input) ==
  LET len == Len(input)
      \* input2 + (input1 << 32), input1 the first four bytes, input2 the last four
      input64 == <<Byte[input[len - 3]], Byte[input[len - 2]],
                   Byte[input[len - 1]], Byte[input[len]],
                   Byte[input[1]], Byte[input[2]], Byte[input[3]], Byte[input[4]]>>
  IN  rrmxmx(Xor64(input64, SECRET_FLIP_4to8), len)

xxh3_64(input) ==
  IF Len(input) <= 3 THEN xxh3_64_1to3(input) ELSE xxh3_64_4to8(input)

(***************************************************************************)
(* The functions of src/src/main.rs.                                       *)
(***************************************************************************)
\* str's `<`: byte-wise lexicographic order, a proper prefix being smaller
RECURSIVE StrLess(_, _)
StrLess(a, b) ==
  IF b = <<>> THEN FALSE
  ELSE IF a = <<>> THEN TRUE
  ELSE IF Byte[Head(a)] # Byte[Head(b)] THEN Byte[Head(a)] < Byte[Head(b)]
  ELSE StrLess(Tail(a), Tail(b))

\* complement without its 'T' => 'A' arm
complementNoT(base) ==
  CASE base = "A" -> "T"
    [] base = "C" -> "G"
    [] base = "G" -> "C"
    [] OTHER -> base

complement(base) ==
  CASE base = "A" -> "T"
    [] base = "C" -> "G"
    [] base = "G" -> "C"
    [] base = "T" -> "A"
    [] OTHER -> base

revcomp(sequence) ==
  [i \in 1..Len(sequence) |-> complement(sequence[Len(sequence) + 1 - i])]

\* canonical_kmer with the comparison turned round
canonical_kmer_larger(kmer) ==
  LET rev_comp == revcomp(kmer)
  IN  IF StrLess(rev_comp, kmer) THEN kmer ELSE rev_comp

canonical_kmer(kmer) ==
  LET rev_comp == revcomp(kmer)
  IN  IF StrLess(kmer, rev_comp) THEN kmer ELSE rev_comp

\* xxh3_64 of every string of 1..MaxK of these characters, tabulated once
\* (f @@ <<>> is f as an explicit table)
MemoChars == {"A", "C", "G", "T", "N", "+"}

xxh3_64_memo ==
  [input \in UNION {[1..n -> MemoChars] : n \in 1..MaxK} |-> xxh3_64(input)] @@ <<>>

hash_kmer(kmer) ==
  IF Len(kmer) \in 1..MaxK /\ \A i \in 1..Len(kmer) : kmer[i] \in MemoChars
  THEN xxh3_64_memo[kmer]
  ELSE xxh3_64(kmer)

\* An empty HashMap
EmptyMap == [key \in {} |-> 0]

\* Entry as map.insert(key, n) would be
EntryInsert(map, key, n) ==
  [x \in DOMAIN map \cup {key} |-> IF x = key THEN n ELSE map[x]]

\* *map.entry(key).or_insert(0) += n
Entry(map, key, n) ==
  IF key \in DOMAIN map THEN [map EXCEPT ![key] = @ + n]
  ELSE map @@ (key :> n)

\* for (key, count) in src { *dst.entry(key).or_insert(0) += count; }
\* Each key of src is visited once: it ends with its count in dst, or 0, plus
\* its count in src, and the other keys of dst keep theirs.
MergeCounts(dst, src) ==
  [x \in DOMAIN dst \cup DOMAIN src |->
     (IF x \in DOMAIN dst THEN dst[x] ELSE 0) + (IF x \in DOMAIN src THEN src[x] ELSE 0)]

\* The body of count_canonical_kmers' loop from index i on.  sequence[i..i+k]
\* panics when i + k exceeds the length of the sequence.
RECURSIVE CountLoop(_, _, _, _, _)
CountLoop(sequence, k, i, end, kmer_counts) ==
  IF ~end.huge /\ i >= end.n THEN [panic |-> FALSE, counts |-> kmer_counts]
  ELSE IF i + k > Len(sequence) THEN [panic |-> TRUE, counts |-> EmptyMap]
  ELSE LET kmer == SubSeq(sequence, i + 1, i + k)
           hash == hash_kmer(canonical_kmer(kmer))
       IN  CountLoop(sequence, k, i + 1, end, Entry(kmer_counts, hash, 1))

\* (RangeEndShort: RangeEnd as sequence.len() - k would be)
\* sequence.len() - k + 1 in usize.  With overflow checks (the dev profile) the
\* subtraction panics when len < k; without them (the release profile) it wraps:
\* to 0 when len = k - 1, and to a value near 2^64 (huge) when len < k - 1.
RangeEndShort(len, k, overflow_checks) ==
  IF len >= k THEN [panic |-> FALSE, huge |-> FALSE, n |-> len - k]
  ELSE [panic |-> overflow_checks, huge |-> ~overflow_checks, n |-> 0]

RangeEnd(len, k, overflow_checks) ==
  IF len >= k THEN [panic |-> FALSE, huge |-> FALSE, n |-> len - k + 1]
  ELSE IF overflow_checks THEN [panic |-> TRUE, huge |-> FALSE, n |-> 0]
  ELSE IF len + 1 = k THEN [panic |-> FALSE, huge |-> FALSE, n |-> 0]
  ELSE [panic |-> FALSE, huge |-> TRUE, n |-> 0]

count_canonical_kmers(sequence, k, overflow_checks) ==
  LET end == RangeEnd(Len(sequence), k, overflow_checks)
  IN  IF end.panic THEN [panic |-> TRUE, counts |-> EmptyMap]
      ELSE CountLoop(sequence, k, 0, end, EmptyMap)

RECURSIVE hash_to_kmer(_, _)
hash_to_kmer(hash, k) ==
  IF k = 0 THEN <<>>
  ELSE LET low == hash[1] % 4
           base == CASE low = 0 -> "A" [] low = 1 -> "C"
                     [] low = 2 -> "G" [] low = 3 -> "T"
       IN  <<base>> \o hash_to_kmer(Shr64(hash, 2), k - 1)

(***************************************************************************)
(* The counter (src/src/main.rs): main and count_kmers_from_file_threaded. *)
(***************************************************************************)
VARIABLES
  pc,               \* where the main thread is
  k,                \* the k-mer size argument
  num_threads,      \* the -t argument
  overflow_checks,  \* the build profile: TRUE for dev, FALSE for release
  lines,            \* the lines read from the input file so far
  sequences,        \* Vec<String> of the complete sequences
  sequence,         \* the buffer of the current record
  is_fastq,
  chunk_size,
  start,
  handles,          \* the spawned workers, in spawn order
  kmer_counts,      \* the table inside the mutex
  mutex,            \* 0 when free, else the index of the worker holding it
  joined,           \* the number of handles joined
  histogram,        \* histogram.rs: the Vec of (count, frequency) pairs
  output,           \* the lines written by main
  call              \* a call of the k-mer functions on their own

args == <<k, num_threads, overflow_checks>>
reader == <<lines, sequences, sequence, is_fastq>>
shards == <<chunk_size, start>>
table == <<kmer_counts, mutex>>

vars == <<pc, args, reader, shards, handles, table, joined, histogram, output, call>>

\* The lines an input file of the counter is made of
InputLines ==
  { <<">", "q", "1">>, <<"@", "q", "1">>, <<"+">>,
    <<"A", "C", "G", "T">>, <<"G", "T">>, <<"N">> }

starts_with(line, c) == line # <<>> /\ line[1] = c

Min(a, b) == IF a <= b THEN a ELSE b

\* No call of the k-mer functions on their own
NoCall ==
  [kmer |-> <<>>, rev_comp |-> <<>>, canonical |-> <<>>, canonical_rev |-> <<>>,
   hash |-> <<>>, decoded |-> <<>>]

Init ==
  /\ pc = "read"
  /\ k \in 1..MaxK
  /\ num_threads \in 0..MaxThreads
  /\ overflow_checks \in BOOLEAN
  /\ lines = <<>>
  /\ sequences = <<>>
  /\ sequence = <<>>
  /\ is_fastq = FALSE
  /\ chunk_size = 0
  /\ start = 0
  /\ handles = <<>>
  /\ kmer_counts = EmptyMap
  /\ mutex = 0
  /\ joined = 0
  /\ histogram = <<>>
  /\ output = EmptyMap
  /\ call = NoCall

\* Flushed without the is_empty test
FlushedAlways == Append(sequences, sequence)

\* if !sequence.is_empty() { sequences.push(sequence.clone()); sequence.clear(); }
Flushed == IF sequence # <<>> THEN Append(sequences, sequence) ELSE sequences

\* One iteration of the loop over reader.lines(), on a line starting with '>'
FastaHeader(pool, max) ==
  /\ pc = "read"
  /\ Len(lines) < max
  /\ \E line \in pool :
       /\ starts_with(line, ">")
       /\ lines' = Append(lines, line)
       /\ sequences' = Flushed
       /\ sequence' = <<>>
  /\ UNCHANGED <<pc, args, is_fastq, shards, handles, table, joined, histogram,
                 output, call>>

\* FastqHeader without is_fastq = true
FastqHeaderNoMode(pool, max) ==
  /\ pc = "read"
  /\ Len(lines) < max
  /\ \E line \in pool :
       /\ ~starts_with(line, ">")
       /\ starts_with(line, "@")
       /\ lines' = Append(lines, line)
       /\ sequences' = Flushed
       /\ sequence' = <<>>
  /\ UNCHANGED <<pc, args, is_fastq, shards, handles, table, joined, histogram,
                 output, call>>

\* ... on a line starting with '@'
FastqHeader(pool, max) ==
  /\ pc = "read"
  /\ Len(lines) < max
  /\ \E line \in pool :
       /\ ~starts_with(line, ">")
       /\ starts_with(line, "@")
       /\ lines' = Append(lines, line)
       /\ sequences' = Flushed
       /\ sequence' = <<>>
       /\ is_fastq' = TRUE
  /\ UNCHANGED <<pc, args, shards, handles, table, joined, histogram, output, call>>

\* ... on a line starting with '+' or '#' once is_fastq is set
SkipQuality(pool, max) ==
  /\ pc = "read"
  /\ Len(lines) < max
  /\ \E line \in pool :
       /\ ~starts_with(line, ">")
       /\ ~starts_with(line, "@")
       /\ is_fastq /\ (starts_with(line, "+") \/ starts_with(line, "#"))
       /\ lines' = Append(lines, line)
  /\ UNCHANGED <<pc, args, sequences, sequence, is_fastq, shards, handles, table,
                 joined, histogram, output, call>>

\* AppendLine with the buffer replaced by the line
AppendLineReplace(pool, max) ==
  /\ pc = "read"
  /\ Len(lines) < max
  /\ \E line \in pool :
       /\ ~starts_with(line, ">")
       /\ ~starts_with(line, "@")
       /\ ~(is_fastq /\ (starts_with(line, "+") \/ starts_with(line, "#")))
       /\ lines' = Append(lines, line)
       /\ sequence' = line
  /\ UNCHANGED <<pc, args, sequences, is_fastq, shards, handles, table, joined,
                 histogram, output, call>>

\* ... on any other line
AppendLine(pool, max) ==
  /\ pc = "read"
  /\ Len(lines) < max
  /\ \E line \in pool :
       /\ ~starts_with(line, ">")
       /\ ~starts_with(line, "@")
       /\ ~(is_fastq /\ (starts_with(line, "+") \/ starts_with(line, "#")))
       /\ lines' = Append(lines, line)
       /\ sequence' = sequence \o line
  /\ UNCHANGED <<pc, args, sequences, is_fastq, shards, handles, table, joined,
                 histogram, output, call>>

\* reader.lines() is exhausted: the final flush
EndOfInput ==
  /\ pc = "read"
  /\ sequences' = Flushed
  /\ sequence' = <<>>
  /\ pc' = "shard"
  /\ UNCHANGED <<args, lines, is_fastq, shards, handles, table, joined, histogram,
                 output, call>>

\* ShardPanic as a chunk size of 0 for no worker would be
ShardNoWorker ==
  /\ pc = "shard"
  /\ num_threads = 0
  /\ chunk_size' = 0
  /\ start' = 0
  /\ pc' = "report"
  /\ lines' = <<>>
  /\ UNCHANGED <<args, sequences, sequence, is_fastq, handles, table, joined,
                 histogram, output, call>>

\* (sequences.len() + num_threads - 1) / num_threads with num_threads = 0:
\* the subtraction overflows or the division is by zero, and main panics.
\* The reader was consumed by the loop: its lines are gone.
ShardPanic ==
  /\ pc = "shard"
  /\ num_threads = 0
  /\ pc' = "panicked"
  /\ lines' = <<>>
  /\ UNCHANGED <<args, sequences, sequence, is_fastq, shards, handles, table, joined,
                 histogram, output, call>>

\* Shard with the chunk size rounded down
ShardFloor ==
  /\ pc = "shard"
  /\ num_threads > 0
  /\ chunk_size' = Len(sequences) \div num_threads
  /\ start' = 0
  /\ pc' = "spawn"
  /\ lines' = <<>>
  /\ UNCHANGED <<args, sequences, sequence, is_fastq, handles, table, joined,
                 histogram, output, call>>

\* let chunk_size = (sequences.len() + num_threads - 1) / num_threads; let mut start = 0;
Shard ==
  /\ pc = "shard"
  /\ num_threads > 0
  /\ chunk_size' = (Len(sequences) + num_threads - 1) \div num_threads
  /\ start' = 0
  /\ pc' = "spawn"
  /\ lines' = <<>>
  /\ UNCHANGED <<args, sequences, sequence, is_fastq, handles, table, joined,
                 histogram, output, call>>

\* One iteration of the loop that spawns the workers
Spawn ==
  /\ pc = "spawn"
  /\ Len(handles) < num_threads
  /\ LET end == Min(start + chunk_size, Len(sequences))
         sequences_chunk == SubSeq(sequences, start + 1, end)
     IN  /\ handles' = Append(handles, [pc |-> "count",
                                        sequences_chunk |-> sequences_chunk,
                                        thread_counts |-> EmptyMap])
         /\ start' = end
  /\ pc' = IF Len(handles) + 1 = num_threads THEN "join" ELSE "spawn"
  /\ UNCHANGED <<args, reader, chunk_size, table, joined, histogram, output, call>>

\* The process is alive: main has neither panicked nor returned
Running == pc \in {"spawn", "join"}

\* A worker counts the next sequence of its chunk into its private table
Count(w) ==
  /\ Running
  /\ handles[w].pc = "count"
  /\ handles[w].sequences_chunk # <<>>
  /\ LET counts == count_canonical_kmers(Head(handles[w].sequences_chunk), k,
                                         overflow_checks)
     IN  /\ ~counts.panic
         /\ handles' = [handles EXCEPT
              ![w].thread_counts = MergeCounts(@, counts.counts),
              ![w].sequences_chunk = Tail(@)]
  /\ UNCHANGED <<pc, args, reader, shards, table, joined, histogram, output, call>>

\* count_canonical_kmers panics and the worker thread dies
CountPanic(w) ==
  /\ Running
  /\ handles[w].pc = "count"
  /\ handles[w].sequences_chunk # <<>>
  /\ count_canonical_kmers(Head(handles[w].sequences_chunk), k, overflow_checks).panic
  /\ handles' = [handles EXCEPT ![w].pc = "panicked"]
  /\ UNCHANGED <<pc, args, reader, shards, table, joined, histogram, output, call>>

\* Lock without waiting for the mutex to be free
LockNoWait(w) ==
  /\ Running
  /\ handles[w].pc = "count"
  /\ handles[w].sequences_chunk = <<>>
  /\ mutex' = w
  /\ handles' = [handles EXCEPT ![w].pc = "merge"]
  /\ UNCHANGED <<pc, args, reader, shards, kmer_counts, joined, histogram, output,
                 call>>

\* kmer_counts.lock().unwrap(), once the chunk is counted.  No thread panics
\* while holding the mutex, so it is never poisoned.
Lock(w) ==
  /\ Running
  /\ handles[w].pc = "count"
  /\ handles[w].sequences_chunk = <<>>
  /\ mutex = 0
  /\ mutex' = w
  /\ handles' = [handles EXCEPT ![w].pc = "merge"]
  /\ UNCHANGED <<pc, args, reader, shards, kmer_counts, joined, histogram, output,
                 call>>

\* Merge as global_counts.insert(kmer_hash, count) would be
MergeInsert(w) ==
  /\ Running
  /\ handles[w].pc = "merge"
  /\ kmer_counts' =
       [x \in DOMAIN kmer_counts \cup DOMAIN handles[w].thread_counts |->
          IF x \in DOMAIN handles[w].thread_counts THEN handles[w].thread_counts[x]
          ELSE kmer_counts[x]]
  /\ mutex' = 0
  /\ handles' = [handles EXCEPT ![w].pc = "done"]
  /\ UNCHANGED <<pc, args, reader, shards, joined, histogram, output, call>>

\* Merge without the drop of the guard: the mutex stays locked
MergeKeepLock(w) ==
  /\ Running
  /\ handles[w].pc = "merge"
  /\ kmer_counts' = MergeCounts(kmer_counts, handles[w].thread_counts)
  /\ handles' = [handles EXCEPT ![w].pc = "done"]
  /\ UNCHANGED <<pc, args, reader, shards, mutex, joined, histogram, output, call>>

\* The merge loop under the lock; the guard is dropped as the closure ends
Merge(w) ==
  /\ Running
  /\ handles[w].pc = "merge"
  /\ kmer_counts' = MergeCounts(kmer_counts, handles[w].thread_counts)
  /\ mutex' = 0
  /\ handles' = [handles EXCEPT ![w].pc = "done"]
  /\ UNCHANGED <<pc, args, reader, shards, joined, histogram, output, call>>

Worker == \E w \in 1..Len(handles) : Count(w) \/ CountPanic(w) \/ Lock(w) \/ Merge(w)

\* Join without waiting for the worker to finish
JoinNoWait ==
  /\ pc = "join"
  /\ joined < num_threads
  /\ joined' = joined + 1
  /\ UNCHANGED <<pc, args, reader, shards, handles, table, histogram, output, call>>

\* handle.join().expect(..) on a worker that has finished
Join ==
  /\ pc = "join"
  /\ joined < num_threads
  /\ handles[joined + 1].pc = "done"
  /\ joined' = joined + 1
  /\ UNCHANGED <<pc, args, reader, shards, handles, table, histogram, output, call>>

\* JoinPanic as handle.join().ok() would be: the failure is dropped
JoinSkip ==
  /\ pc = "join"
  /\ joined < num_threads
  /\ handles[joined + 1].pc = "panicked"
  /\ joined' = joined + 1
  /\ UNCHANGED <<pc, args, reader, shards, handles, table, histogram, output, call>>

\* handle.join().expect(..) on a worker that has panicked: main panics
JoinPanic ==
  /\ pc = "join"
  /\ joined < num_threads
  /\ handles[joined + 1].pc = "panicked"
  /\ pc' = "panicked"
  /\ UNCHANGED <<args, reader, shards, handles, table, joined, histogram, output,
                 call>>

\* Arc::try_unwrap(kmer_counts)...into_inner(): the table is returned to main
Unwrap ==
  /\ pc = "join"
  /\ joined = num_threads
  /\ pc' = "report"
  /\ UNCHANGED <<args, reader, shards, handles, table, joined, histogram, output,
                 call>>

\* The lines main prints for a table: a bag of <<kmer, count>>
Printed(counts, len) ==
  LET line(hash) == <<hash_to_kmer(hash, len), counts[hash]>>
      printed == {line(hash) : hash \in DOMAIN counts}
  IN  [l \in printed |-> Cardinality({hash \in DOMAIN counts : line(hash) = l})]

\* main's output loop
Report ==
  /\ pc = "report"
  /\ output' = Printed(kmer_counts, k)
  /\ pc' = "done"
  /\ UNCHANGED <<args, reader, shards, handles, table, joined, histogram, call>>

Ingest ==
  \/ FastaHeader(InputLines, MaxLines)
  \/ FastqHeader(InputLines, MaxLines)
  \/ SkipQuality(InputLines, MaxLines)
  \/ AppendLine(InputLines, MaxLines)
  \/ EndOfInput

Next ==
  \/ Ingest
  \/ ShardPanic
  \/ Shard
  \/ Spawn
  \/ Worker
  \/ Join
  \/ JoinPanic
  \/ Unwrap
  \/ Report

Spec == Init /\ [][Next]_vars

(***************************************************************************)
(* The ingestion loop alone, on longer files.                              *)
(***************************************************************************)
IngestLines ==
  { <<>>, <<">", "q", "1">>, <<"@", "q", "1">>, <<"+">>, <<"#">>,
    <<"A", "A", "A", "A">>, <<"I", "I", "I", "I">>, <<"A", "C">> }

InitIngest == Init /\ num_threads = 1 /\ overflow_checks = FALSE

NextIngest ==
  \/ FastaHeader(IngestLines, MaxIngestLines)
  \/ FastqHeader(IngestLines, MaxIngestLines)
  \/ SkipQuality(IngestLines, MaxIngestLines)
  \/ AppendLine(IngestLines, MaxIngestLines)
  \/ EndOfInput

SpecIngest == InitIngest /\ [][NextIngest]_vars

(***************************************************************************)
(* The sharding, the workers and the report alone, on longer lists of      *)
(* sequences and more workers: count_kmers_from_file_threaded from line 94 *)
(* on, with the list of sequences the ingestion loop left.                 *)
(***************************************************************************)
\* The sequences of the lists: of k + 1, k and k - 1 characters for k = 2
ShardSequences == { <<"A", "C", "G">>, <<"A", "C">>, <<"A">> }

InitShardsOf(pool, max_sequences, max_threads) ==
  /\ pc = "shard"
  /\ k = 2
  /\ num_threads \in 0..max_threads
  /\ overflow_checks \in BOOLEAN
  /\ lines = <<>>
  /\ sequences \in UNION {[1..n -> pool] : n \in 0..max_sequences}
  /\ sequence = <<>>
  /\ is_fastq = FALSE
  /\ chunk_size = 0
  /\ start = 0
  /\ handles = <<>>
  /\ kmer_counts = EmptyMap
  /\ mutex = 0
  /\ joined = 0
  /\ histogram = <<>>
  /\ output = EmptyMap
  /\ call = NoCall

InitShards == InitShardsOf(ShardSequences, MaxSequences, MaxShardThreads)

\* The steps of the thread of main
Main ==
  \/ ShardPanic
  \/ Shard
  \/ Spawn
  \/ Join
  \/ JoinPanic
  \/ Unwrap
  \/ Report

NextShards ==
  \/ Main
  \/ Worker

SpecShards == InitShards /\ [][NextShards]_vars

\* The steps of the thread of worker w
WorkerStep(w) ==
  /\ w \in 1..Len(handles)
  /\ Count(w) \/ CountPanic(w) \/ Lock(w) \/ Merge(w)

\* The operating system runs every thread that can take a step: the thread of
\* main and each thread given to thread::spawn
Fairness ==
  /\ WF_vars(Main)
  /\ \A w \in 1..MaxFairThreads : WF_vars(WorkerStep(w))

\* The sequences of the lists: of k and k - 1 characters for k = 2
FairSequences == { <<"A", "C">>, <<"A">> }

InitFair == InitShardsOf(FairSequences, MaxFairSequences, MaxFairThreads)

SpecFair == InitFair /\ [][NextShards]_vars /\ Fairness

(***************************************************************************)
(* The k-mer functions on their own, on every k-mer of 1..MaxK characters. *)
(***************************************************************************)
Kmers == UNION {[1..n -> MemoChars] : n \in 1..MaxK}

InitKmer ==
  /\ pc = "call"
  /\ k = 1
  /\ num_threads = 1
  /\ overflow_checks = FALSE
  /\ lines = <<>>
  /\ sequences = <<>>
  /\ sequence = <<>>
  /\ is_fastq = FALSE
  /\ chunk_size = 0
  /\ start = 0
  /\ handles = <<>>
  /\ kmer_counts = EmptyMap
  /\ mutex = 0
  /\ joined = 0
  /\ histogram = <<>>
  /\ output = EmptyMap
  /\ \E kmer \in Kmers : call = [NoCall EXCEPT !.kmer = kmer]

CallRevcomp ==
  /\ pc = "call"
  /\ call.rev_comp = <<>>
  /\ call' = [call EXCEPT !.rev_comp = revcomp(call.kmer)]
  /\ UNCHANGED <<pc, args, reader, shards, handles, table, joined, histogram, output>>

CallCanonical ==
  /\ pc = "call"
  /\ call.canonical = <<>>
  /\ call' = [call EXCEPT !.canonical = canonical_kmer(call.kmer)]
  /\ UNCHANGED <<pc, args, reader, shards, handles, table, joined, histogram, output>>

\* canonical_kmer of the reverse complement
CallCanonicalRev ==
  /\ pc = "call"
  /\ call.rev_comp # <<>>
  /\ call.canonical_rev = <<>>
  /\ call' = [call EXCEPT !.canonical_rev = canonical_kmer(call.rev_comp)]
  /\ UNCHANGED <<pc, args, reader, shards, handles, table, joined, histogram, output>>

CallHash ==
  /\ pc = "call"
  /\ call.hash = <<>>
  /\ call' = [call EXCEPT !.hash = hash_kmer(call.kmer)]
  /\ UNCHANGED <<pc, args, reader, shards, handles, table, joined, histogram, output>>

\* hash_to_kmer of the key of the k-mer
CallDecode ==
  /\ pc = "call"
  /\ call.hash # <<>>
  /\ call.decoded = <<>>
  /\ call' = [call EXCEPT !.decoded = hash_to_kmer(call.hash, Len(call.kmer))]
  /\ UNCHANGED <<pc, args, reader, shards, handles, table, joined, histogram, output>>

NextKmer ==
  \/ CallRevcomp
  \/ CallCanonical
  \/ CallCanonicalRev
  \/ CallHash
  \/ CallDecode

SpecKmer == InitKmer /\ [][NextKmer]_vars
(***************************************************************************)
(* The histogram builder (src/src/histogram.rs), from the table that       *)
(* read_kmer_counts_threaded returned on.                                  *)
(***************************************************************************)
\* The tokens of the input: A, AA, AAA, ...
Token(i) == [j \in 1..i |-> "A"]

\* The tables of token counts a file of at most MaxTokens tokens gives
TokenTables ==
  UNION {[{Token(i) : i \in 1..n} -> 1..MaxCount] : n \in 0..MaxTokens}

InitHistogram ==
  /\ pc = "histogram"
  /\ k = 1
  /\ num_threads = 1
  /\ overflow_checks = FALSE
  /\ lines = <<>>
  /\ sequences = <<>>
  /\ sequence = <<>>
  /\ is_fastq = FALSE
  /\ chunk_size = 0
  /\ start = 0
  /\ handles = <<>>
  /\ kmer_counts \in TokenTables
  /\ mutex = 0
  /\ joined = 0
  /\ histogram = <<>>
  /\ output = <<>>
  /\ call = NoCall

\* create_histogram with += count for += 1
RECURSIVE create_histogram_sum(_)
create_histogram_sum(counts) ==
  IF DOMAIN counts = {} THEN EmptyMap
  ELSE LET kmer == CHOOSE x \in DOMAIN counts : TRUE
       IN  Entry(create_histogram_sum([x \in DOMAIN counts \ {kmer} |-> counts[x]]),
                 counts[kmer], counts[kmer])

\* for count in kmer_counts.values() { *histogram.entry(*count).or_insert(0) += 1; }
RECURSIVE create_histogram(_)
create_histogram(counts) ==
  IF DOMAIN counts = {} THEN EmptyMap
  ELSE LET kmer == CHOOSE x \in DOMAIN counts : TRUE
       IN  Entry(create_histogram([x \in DOMAIN counts \ {kmer} |-> counts[x]]),
                 counts[kmer], 1)

\* The orders in which a HashMap may give its (key, value) pairs
Orders(map) ==
  LET pairs == {<<key, map[key]>> : key \in DOMAIN map}
      n == Cardinality(pairs)
  IN  {v \in [1..n -> pairs] : \A i, j \in 1..n : v[i] = v[j] => i = j}

\* The place of e in a Vec sorted by its first column, after the equal ones
RECURSIVE Inserted(_, _)
Inserted(sorted, e) ==
  IF sorted = <<>> THEN <<e>>
  ELSE IF e[1] < Head(sorted)[1] THEN <<e>> \o sorted
  ELSE <<Head(sorted)>> \o Inserted(Tail(sorted), e)

\* histogram.sort_by(|a, b| a.0.cmp(&b.0)): a stable sort
RECURSIVE sort_by(_)
sort_by(v) ==
  IF v = <<>> THEN <<>> ELSE Inserted(sort_by(SubSeq(v, 1, Len(v) - 1)), v[Len(v)])

\* create_histogram(&kmer_counts).into_iter().collect()
CreateHistogram ==
  /\ pc = "histogram"
  /\ histogram' \in Orders(create_histogram(kmer_counts))
  /\ pc' = "sort"
  /\ UNCHANGED <<args, reader, shards, handles, table, joined, output, call>>

Sort ==
  /\ pc = "sort"
  /\ histogram' = sort_by(histogram)
  /\ pc' = "print"
  /\ UNCHANGED <<args, reader, shards, handles, table, joined, output, call>>

\* The output loop: one line per pair, in the order of the Vec
PrintHistogram ==
  /\ pc = "print"
  /\ output' = histogram
  /\ pc' = "done"
  /\ UNCHANGED <<args, reader, shards, handles, table, joined, histogram, call>>

NextHistogram ==
  \/ CreateHistogram
  \/ Sort
  \/ PrintHistogram

SpecHistogram == InitHistogram /\ [][NextHistogram]_vars

(***************************************************************************)
(* histogram.rs: read_kmer_counts_threaded, on the lines of the file, and  *)
(* main after it.                                                          *)
(***************************************************************************)
\* line.split_whitespace(): the maximal runs of characters other than ' '
RECURSIVE SplitFrom(_, _, _, _)
SplitFrom(line, i, word, parts) ==
  IF i > Len(line) THEN (IF word = <<>> THEN parts ELSE Append(parts, word))
  ELSE IF line[i] = " "
       THEN SplitFrom(line, i + 1, <<>>, IF word = <<>> THEN parts ELSE Append(parts, word))
  ELSE SplitFrom(line, i + 1, Append(word, line[i]), parts)

split_whitespace(line) == SplitFrom(line, 1, <<>>, <<>>)

IsDigit(c) == c \in {"0", "1", "2", "3", "4", "5", "6", "7", "8", "9"}

RECURSIVE Decimal(_)
Decimal(digits) ==
  IF digits = <<>> THEN 0
  ELSE 10 * Decimal(SubSeq(digits, 1, Len(digits) - 1)) + (Byte[digits[Len(digits)]] - 48)

\* str::parse::<u32>: an optional '+', then one digit or more.  The counts of
\* the lines below have few digits and are far below 2^32.
parse(word) ==
  LET digits == IF word # <<>> /\ word[1] = "+" THEN Tail(word) ELSE word
  IN  IF digits = <<>> \/ \E i \in 1..Len(digits) : ~IsDigit(digits[i])
      THEN [ok |-> FALSE, value |-> 0]
      ELSE [ok |-> TRUE, value |-> Decimal(digits)]

\* The lines of the file: token and count, and a line without a count
ReadLines ==
  { <<"A", " ", "1">>, <<"A", " ", "2">>, <<"C", " ", "1">>, <<"A">> }

InitRead ==
  /\ pc = "h_shard"
  /\ k = 1
  /\ num_threads \in 0..MaxReadThreads
  /\ overflow_checks = FALSE
  /\ lines \in UNION {[1..n -> ReadLines] : n \in 0..MaxReadLines}
  /\ sequences = <<>>
  /\ sequence = <<>>
  /\ is_fastq = FALSE
  /\ chunk_size = 0
  /\ start = 0
  /\ handles = <<>>
  /\ kmer_counts = EmptyMap
  /\ mutex = 0
  /\ joined = 0
  /\ histogram = <<>>
  /\ output = <<>>
  /\ call = NoCall

\* (lines.len() + num_threads - 1) / num_threads with num_threads = 0: main panics
ReadShardPanic ==
  /\ pc = "h_shard"
  /\ num_threads = 0
  /\ pc' = "panicked"
  /\ UNCHANGED <<args, reader, shards, handles, table, joined, histogram, output, call>>

ReadShard ==
  /\ pc = "h_shard"
  /\ num_threads > 0
  /\ chunk_size' = (Len(lines) + num_threads - 1) \div num_threads
  /\ start' = 0
  /\ pc' = "h_spawn"
  /\ UNCHANGED <<args, reader, handles, table, joined, histogram, output, call>>

\* One iteration of the loop that spawns the workers
ReadSpawn ==
  /\ pc = "h_spawn"
  /\ Len(handles) < num_threads
  /\ LET end == Min(start + chunk_size, Len(lines))
         lines_chunk == SubSeq(lines, start + 1, end)
     IN  /\ handles' = Append(handles, [pc |-> "tally",
                                        lines_chunk |-> lines_chunk,
                                        thread_counts |-> EmptyMap])
         /\ start' = end
  /\ pc' = IF Len(handles) + 1 = num_threads THEN "h_join" ELSE "h_spawn"
  /\ UNCHANGED <<args, reader, chunk_size, table, joined, histogram, output, call>>

\* main of histogram.rs is inside read_kmer_counts_threaded, past the sharding
ReadRunning == pc \in {"h_spawn", "h_join"}

\* A worker adds the count of the next line of its chunk to its private table
Tally(w) ==
  /\ ReadRunning
  /\ handles[w].pc = "tally"
  /\ handles[w].lines_chunk # <<>>
  /\ LET parts == split_whitespace(Head(handles[w].lines_chunk))
     IN  /\ Len(parts) >= 2
         /\ parse(parts[2]).ok
         /\ handles' = [handles EXCEPT
              ![w].thread_counts = Entry(@, parts[1], parse(parts[2]).value),
              ![w].lines_chunk = Tail(@)]
  /\ UNCHANGED <<pc, args, reader, shards, table, joined, histogram, output, call>>

\* The line has no token, no count or no number for a count: expect panics
TallyPanic(w) ==
  /\ ReadRunning
  /\ handles[w].pc = "tally"
  /\ handles[w].lines_chunk # <<>>
  /\ LET parts == split_whitespace(Head(handles[w].lines_chunk))
     IN  ~(Len(parts) >= 2 /\ parse(parts[2]).ok)
  /\ handles' = [handles EXCEPT ![w].pc = "panicked"]
  /\ UNCHANGED <<pc, args, reader, shards, table, joined, histogram, output, call>>

\* kmer_counts.lock().unwrap(), once the chunk is tallied
ReadLock(w) ==
  /\ ReadRunning
  /\ handles[w].pc = "tally"
  /\ handles[w].lines_chunk = <<>>
  /\ mutex = 0
  /\ mutex' = w
  /\ handles' = [handles EXCEPT ![w].pc = "merge"]
  /\ UNCHANGED <<pc, args, reader, shards, kmer_counts, joined, histogram, output,
                 call>>

\* ReadMerge as global_counts.insert(kmer, count) would be
ReadMergeInsert(w) ==
  /\ ReadRunning
  /\ handles[w].pc = "merge"
  /\ kmer_counts' =
       [x \in DOMAIN kmer_counts \cup DOMAIN handles[w].thread_counts |->
          IF x \in DOMAIN handles[w].thread_counts THEN handles[w].thread_counts[x]
          ELSE kmer_counts[x]]
  /\ mutex' = 0
  /\ handles' = [handles EXCEPT ![w].pc = "done"]
  /\ UNCHANGED <<pc, args, reader, shards, joined, histogram, output, call>>

\* The merge loop under the lock; the guard is dropped as the closure ends
ReadMerge(w) ==
  /\ ReadRunning
  /\ handles[w].pc = "merge"
  /\ kmer_counts' = MergeCounts(kmer_counts, handles[w].thread_counts)
  /\ mutex' = 0
  /\ handles' = [handles EXCEPT ![w].pc = "done"]
  /\ UNCHANGED <<pc, args, reader, shards, joined, histogram, output, call>>

ReadWorker ==
  \E w \in 1..Len(handles) : Tally(w) \/ TallyPanic(w) \/ ReadLock(w) \/ ReadMerge(w)

\* handle.join().expect(..) on a worker that has finished
ReadJoin ==
  /\ pc = "h_join"
  /\ joined < num_threads
  /\ handles[joined + 1].pc = "done"
  /\ joined' = joined + 1
  /\ UNCHANGED <<pc, args, reader, shards, handles, table, histogram, output, call>>

\* handle.join().expect(..) on a worker that has panicked: main panics
ReadJoinPanic ==
  /\ pc = "h_join"
  /\ joined < num_threads
  /\ handles[joined + 1].pc = "panicked"
  /\ pc' = "panicked"
  /\ UNCHANGED <<args, reader, shards, handles, table, joined, histogram, output,
                 call>>

\* Arc::try_unwrap(kmer_counts)...into_inner(): the table is returned to main
ReadUnwrap ==
  /\ pc = "h_join"
  /\ joined = num_threads
  /\ pc' = "histogram"
  /\ UNCHANGED <<args, reader, shards, handles, table, joined, histogram, output,
                 call>>

NextRead ==
  \/ ReadShardPanic
  \/ ReadShard
  \/ ReadSpawn
  \/ ReadWorker
  \/ ReadJoin
  \/ ReadJoinPanic
  \/ ReadUnwrap
  \/ CreateHistogram
  \/ Sort
  \/ PrintHistogram

SpecRead == InitRead /\ [][NextRead]_vars

(***************************************************************************)
(* Properties of the counter.                                              *)
(***************************************************************************)
\* Every worker was spawned and has merged its table
AllMerged ==
  /\ num_threads > 0
  /\ Len(handles) = num_threads
  /\ \A w \in 1..Len(handles) : handles[w].pc = "done"

\* main holds the table count_kmers_from_file_threaded returned
Returned == pc \in {"report", "done"}

RECURSIVE SumCounts(_)
SumCounts(counts) ==
  IF DOMAIN counts = {} THEN 0
  ELSE LET key == CHOOSE x \in DOMAIN counts : TRUE
       IN  counts[key] + SumCounts([x \in DOMAIN counts \ {key} |-> counts[x]])

\* max(0, len(seq) - kk + 1)
NumWindows(seq, kk) == IF Len(seq) >= kk THEN Len(seq) - kk + 1 ELSE 0

RECURSIVE TotalWindows(_, _)
TotalWindows(seqs, kk) ==
  IF seqs = <<>> THEN 0 ELSE NumWindows(Head(seqs), kk) + TotalWindows(Tail(seqs), kk)

\* The valid windows of the sequences: <<index of the sequence, start>>
WindowsOf(seqs, kk) ==
  UNION {{<<s, i>> : i \in 1..NumWindows(seqs[s], kk)} : s \in 1..Len(seqs)}

\* The key the window p is counted under
KeyOf(seqs, kk, p) ==
  hash_kmer(canonical_kmer(SubSeq(seqs[p[1]], p[2], p[2] + kk - 1)))

\* The table one worker alone makes of the sequences, in order
RECURSIVE CountAll(_, _, _)
CountAll(seqs, kk, acc) ==
  IF seqs = <<>> THEN acc
  ELSE CountAll(Tail(seqs), kk,
                MergeCounts(acc, count_canonical_kmers(Head(seqs), kk,
                                                       overflow_checks).counts))

\* C1: for the same sequences and k, the returned table is the one a single
\* worker makes of them in order, whatever the number of workers and the
\* interleaving of their counting and merging.
C1_TableIndependentOfWorkers ==
  Returned => kmer_counts = CountAll(sequences, k, EmptyMap)

\* Three workers, two of which counted the same key, have merged
C1_Witness ==
  /\ Returned
  /\ num_threads = 3
  /\ \E x \in DOMAIN kmer_counts :
       /\ x \in DOMAIN handles[1].thread_counts
       /\ x \in DOMAIN handles[2].thread_counts
       /\ kmer_counts[x] >= 2

\* C2: window conservation: when the run completes, the counts of the table
\* sum to the sum over the sequences of max(0, len - k + 1).
C2_WindowConservation ==
  Returned => SumCounts(kmer_counts) = TotalWindows(sequences, k)

\* The record ACGTACGT with k = 4: five windows
C2_Witness ==
  /\ pc = "done"
  /\ sequences = << <<"A", "C", "G", "T", "A", "C", "G", "T">> >>
  /\ k = 4
  /\ SumCounts(kmer_counts) = 5

\* C3: a sequence shorter than k contributes no window and raises no error:
\* no worker fails.
C3_ShortSequenceRaisesNoError ==
  \A w \in 1..Len(handles) : handles[w].pc # "panicked"

\* C7: once all workers have merged, the table holds exactly the keys of the
\* valid windows of the sequences, each with the number of windows that have it.
C7_TableCountsWindows ==
  AllMerged =>
    /\ DOMAIN kmer_counts = {KeyOf(sequences, k, p) : p \in WindowsOf(sequences, k)}
    /\ \A x \in DOMAIN kmer_counts :
         /\ kmer_counts[x] =
              Cardinality({p \in WindowsOf(sequences, k) : KeyOf(sequences, k, p) = x})
         /\ kmer_counts[x] > 0

\* Two shards, one of a sequence of k - 1 characters, the other of a sequence
\* with two keys, one of them counted twice
C7_Witness ==
  /\ AllMerged
  /\ num_threads >= 2
  /\ Len(sequences) = 2
  /\ \E s \in 1..2 : Len(sequences[s]) = k - 1
  /\ Cardinality(DOMAIN kmer_counts) = 2
  /\ \E x \in DOMAIN kmer_counts : kmer_counts[x] = 2
(***************************************************************************)
(* Properties of the sharding and of the workers.                          *)
(***************************************************************************)
\* ceil(len / n): the least c with c * n >= len
CeilDiv(len, n) == CHOOSE c \in 0..len : c * n >= len /\ (c = 0 \/ (c - 1) * n < len)

\* The bounds [first, last) of shard w of len sequences among n workers
ShardFirst(len, n, w) == Min((w - 1) * CeilDiv(len, n), len)

ShardLast(len, n, w) == Min(w * CeilDiv(len, n), len)

\* C11: the shards are the contiguous slices [start, end) of the list, of
\* ceil(L / N) sequences, in order: worker w is given the sequences
\* min((w-1)c, L) + 1 .. min(wc, L); the last shard ends at L, every sequence
\* is in one shard and one only, and the shards after the L-th are empty.
C11_ShardsPartition ==
  [][Spawn =>
       LET w == Len(handles) + 1
           L == Len(sequences)
       IN  /\ chunk_size = CeilDiv(L, num_threads)
           /\ start = ShardFirst(L, num_threads, w)
           /\ start' = ShardLast(L, num_threads, w)
           /\ start' <= L
           /\ handles'[w].sequences_chunk = SubSeq(sequences, start + 1, start')
           /\ w = num_threads => start' = L
           /\ w > L => handles'[w].sequences_chunk = <<>>
           /\ \A i \in 1..L :
                Cardinality({v \in 1..num_threads :
                               /\ ShardFirst(L, num_threads, v) < i
                               /\ i <= ShardLast(L, num_threads, v)}) = 1
    ]_vars

\* Four sequences among three workers: two, two and none
C11_Witness ==
  /\ pc = "join"
  /\ num_threads = 3
  /\ Len(sequences) = 4
  /\ sequences[1] # sequences[3]
  /\ chunk_size = 2
  /\ start = 4
  /\ handles[1].sequences_chunk = SubSeq(sequences, 1, 2)
  /\ handles[2].sequences_chunk = SubSeq(sequences, 3, 4)
  /\ handles[3].sequences_chunk = <<>>

\* The workers that hold the lock guard global_counts
Merging == {w \in 1..Len(handles) : handles[w].pc = "merge"}

\* C12: the shared table changes only in the merge of the worker that holds
\* the mutex; at most one worker is merging; a worker takes the mutex once,
\* when its whole shard is counted, and never again once it has merged, so
\* that a returned table is the result of exactly N merges; counting into
\* the private table takes no lock and leaves the shared table alone.
C12_MergeUnderMutex ==
  /\ [](/\ Cardinality(Merging) <= 1
        /\ mutex \in 0..Len(handles)
        /\ \A w \in 1..Len(handles) :
             /\ mutex = w <=> handles[w].pc = "merge"
             /\ handles[w].pc \in {"merge", "done"} => handles[w].sequences_chunk = <<>>
        /\ Returned =>
             /\ Len(handles) = num_threads
             /\ \A w \in 1..num_threads : handles[w].pc = "done")
  /\ [][/\ kmer_counts' # kmer_counts =>
             /\ mutex # 0
             /\ handles[mutex].pc = "merge"
             /\ handles'[mutex].pc = "done"
             /\ kmer_counts' = MergeCounts(kmer_counts, handles[mutex].thread_counts)
        /\ \A w \in 1..Len(handles) :
             /\ (mutex' = w /\ mutex # w) =>
                  /\ mutex = 0
                  /\ handles[w].pc = "count"
                  /\ handles[w].sequences_chunk = <<>>
             /\ (handles'[w].pc = "done" /\ handles[w].pc # "done") =>
                  handles[w].pc = "merge"
             /\ handles[w].pc = "merge" => handles'[w].pc \in {"merge", "done"}
             /\ handles[w].pc = "done" => (handles'[w].pc = "done" /\ mutex' # w)
             /\ handles'[w].thread_counts # handles[w].thread_counts =>
                  (mutex' = mutex /\ kmer_counts' = kmer_counts)
       ]_vars

\* One worker has merged, one is merging, one has counted its shard and waits
C12_Witness ==
  /\ num_threads = 3
  /\ Len(handles) = 3
  /\ handles[3].pc = "done"
  /\ mutex = 2
  /\ handles[2].pc = "merge"
  /\ handles[2].thread_counts # EmptyMap
  /\ handles[1].pc = "count"
  /\ handles[1].sequences_chunk = <<>>
  /\ handles[1].thread_counts # EmptyMap
  /\ kmer_counts # EmptyMap

\* C13: the table is taken out of the mutex and returned only when each of
\* the N workers has merged and released the lock: while main holds the
\* returned table or has reported it, no worker is counting or merging.
C13_ReturnedAfterAllMerged ==
  /\ [](Returned =>
          /\ Len(handles) = num_threads
          /\ joined = num_threads
          /\ mutex = 0
          /\ \A w \in 1..num_threads :
               /\ handles[w].pc = "done"
               /\ handles[w].sequences_chunk = <<>>)
  /\ [][(Returned' /\ ~Returned) =>
          /\ AllMerged
          /\ mutex = 0
          /\ kmer_counts' = kmer_counts]_vars
  /\ [][Returned => (kmer_counts' = kmer_counts /\ handles' = handles)]_vars

\* Four workers, each with a sequence it counted, have merged and main has
\* the table
C13_Witness ==
  /\ pc = "report"
  /\ num_threads = 4
  /\ Len(sequences) = 4
  /\ \A w \in 1..4 : handles[w].pc = "done" /\ handles[w].thread_counts # EmptyMap

\* Some worker has panicked
Failed == \E w \in 1..Len(handles) : handles[w].pc = "panicked"

\* C14: once a worker has failed, the run ends in the panic of main: no table
\* is ever returned and nothing is reported, whichever worker failed and
\* however many of the others had merged.
C14_WorkerFailureIsFatal ==
  /\ [](Failed => (~Returned /\ output = EmptyMap))
  /\ [][Failed => Failed']_vars
  /\ Failed ~> (pc = "panicked")

\* The second of three workers failed after the first had merged, the third
\* has merged too, and main has panicked in the join
C14_Witness ==
  /\ pc = "panicked"
  /\ num_threads = 3
  /\ Len(handles) = 3
  /\ handles[1].pc = "done"
  /\ handles[2].pc = "panicked"
  /\ handles[3].pc = "done"
  /\ kmer_counts # EmptyMap
  /\ output = EmptyMap

\* Every sequence has at least k characters
AllLong == \A s \in 1..Len(sequences) : Len(sequences[s]) >= k

\* C17: with N >= 1 workers and sequences of at least k characters, under
\* fair scheduling of the threads the run terminates: every worker takes the
\* mutex, merges and finishes, main returns the table and reports it.
C17_RunTerminates ==
  (pc = "shard" /\ num_threads >= 1 /\ AllLong)
    ~> (pc = "done" /\ AllMerged /\ mutex = 0)

\* Three workers, each with one sequence, have finished and main is done
C17_Witness ==
  /\ pc = "done"
  /\ num_threads = 3
  /\ Len(sequences) = 3
  /\ AllLong
  /\ AllMerged
  /\ \A w \in 1..3 : handles[w].thread_counts # EmptyMap

\* C19: with a worker count of 0 the counter panics before it spawns a
\* worker: no worker exists, no table is returned and nothing is reported,
\* whatever the input, and the only step after the input is read is the panic.
C19_ZeroWorkersIsFatal ==
  /\ [](num_threads = 0 =>
          /\ pc \in {"read", "shard", "panicked"}
          /\ handles = <<>>
          /\ kmer_counts = EmptyMap
          /\ output = EmptyMap)
  /\ [][(num_threads = 0 /\ pc = "shard") => pc' = "panicked"]_vars

\* No worker and no sequence: the panic
C19_Witness ==
  /\ num_threads = 0
  /\ sequences = <<>>
  /\ pc = "panicked"

(***************************************************************************)
(* Properties of the ingestion loop.                                       *)
(***************************************************************************)
IsHeader(line) == starts_with(line, ">") \/ starts_with(line, "@")

\* Line i of ls is a '+' or '#' line after an '@' line
IsDropped(ls, i) ==
  /\ \E j \in 1..(i - 1) : starts_with(ls[j], "@")
  /\ starts_with(ls[i], "+") \/ starts_with(ls[i], "#")

\* The bodies of the records of lines 1..i of ls, empty ones included: a header
\* line starts a record, every other line that is not dropped joins the last one
RECURSIVE Bodies(_, _)
Bodies(ls, i) ==
  IF i = 0 THEN << <<>> >>
  ELSE LET before == Bodies(ls, i - 1)
       IN  IF IsHeader(ls[i]) THEN Append(before, <<>>)
           ELSE IF IsDropped(ls, i) THEN before
           ELSE [before EXCEPT ![Len(before)] = @ \o ls[i]]

NonEmpty(seqs) == SelectSeq(seqs, LAMBDA body : body # <<>>)

Front(seqs) == SubSeq(seqs, 1, Len(seqs) - 1)

\* C4: the quality line of a FASTQ record is no part of the sequence: the file
\* @q1 / AAAA / + / IIII gives the one sequence AAAA, and with k = 2 three windows.
C4_QualityLineExcluded ==
  (pc = "shard" /\ lines = << <<"@", "q", "1">>, <<"A", "A", "A", "A">>, <<"+">>,
                             <<"I", "I", "I", "I">> >>)
  => /\ sequences = << <<"A", "A", "A", "A">> >>
     /\ SumCounts(CountAll(sequences, 2, EmptyMap)) = 3

\* C10: the sequences are the non-empty record bodies of the lines read, in
\* order: while reading, those of the records before the current one, whose
\* body is the buffer; at the end of the input, those of all the records.
C10_OnlyNonEmptySequencesInOrder ==
  /\ \A i \in 1..Len(sequences) : sequences[i] # <<>>
  /\ pc = "read" =>
       /\ sequences = NonEmpty(Front(Bodies(lines, Len(lines))))
       /\ sequence = Bodies(lines, Len(lines))[Len(Bodies(lines, Len(lines)))]
  /\ pc = "shard" => sequences = NonEmpty(Bodies(lines, Len(lines)))

\* Two headers in a row and a header at the end of the input: one sequence
C10_Witness ==
  /\ pc = "shard"
  /\ lines = << <<">", "q", "1">>, <<"@", "q", "1">>, <<"A", "C">>, <<">", "q", "1">> >>
  /\ sequences = << <<"A", "C">> >>

\* The line is a '+' or '#' line
IsQuality(line) == starts_with(line, "+") \/ starts_with(line, "#")

\* C15: FASTQ mode is on exactly when a line starting with '@' was read, and
\* stays on; a line starting with '+' or '#' read in FASTQ mode changes
\* neither the buffer nor the list of sequences; read before FASTQ mode, it
\* is appended to the buffer as any body line is.
C15_FastqModeDropsQualityMarks ==
  /\ [](is_fastq <=> \E i \in 1..Len(lines) : starts_with(lines[i], "@"))
  /\ [][is_fastq => is_fastq']_vars
  /\ [][(pc = "read" /\ Len(lines') = Len(lines) + 1) =>
          LET line == lines'[Len(lines')]
          IN  /\ (starts_with(line, "@") /\ ~is_fastq) => is_fastq'
              /\ (is_fastq /\ IsQuality(line)) =>
                   (sequence' = sequence /\ sequences' = sequences)
              /\ (~is_fastq /\ IsQuality(line)) =>
                   (sequence' = sequence \o line /\ sequences' = sequences)
       ]_vars

\* A '+' line before the first '@' line is a sequence; the '+' line after it
\* is dropped
C15_Witness ==
  /\ pc = "read"
  /\ is_fastq
  /\ lines = << <<"+">>, <<"@", "q", "1">>, <<"A", "C">>, <<"+">> >>
  /\ sequences = << <<"+">> >>
  /\ sequence = <<"A", "C">>

\* The characters of the strings of seqs, in order
RECURSIVE Concat(_)
Concat(seqs) == IF seqs = <<>> THEN <<>> ELSE Head(seqs) \o Concat(Tail(seqs))

\* The characters of the lines 1..i of ls that are neither header lines nor
\* dropped, in order
RECURSIVE BodyChars(_, _)
BodyChars(ls, i) ==
  IF i = 0 THEN <<>>
  ELSE IF IsHeader(ls[i]) \/ IsDropped(ls, i) THEN BodyChars(ls, i - 1)
  ELSE BodyChars(ls, i - 1) \o ls[i]

\* C16: ingestion conserves the body characters: the sequences, followed
\* while reading by the buffer, are together the characters of the lines read
\* that are neither header lines nor dropped, in order; and a step of the
\* loop moves no character already in a sequence.
C16_BodyCharactersConserved ==
  /\ [](/\ pc = "read" => Concat(sequences) \o sequence = BodyChars(lines, Len(lines))
        /\ pc = "shard" => Concat(sequences) = BodyChars(lines, Len(lines)))
  /\ [][pc = "read" =>
          /\ Len(sequences') >= Len(sequences)
          /\ SubSeq(sequences', 1, Len(sequences)) = sequences]_vars

\* A record of two body lines with a dropped line between them
C16_Witness ==
  /\ pc = "shard"
  /\ lines = << <<"@", "q", "1">>, <<"A", "A", "A", "A">>, <<"+">>, <<"A", "C">> >>
  /\ sequences = << <<"A", "A", "A", "A", "A", "C">> >>

(***************************************************************************)
(* Properties of the k-mer functions.                                      *)
(***************************************************************************)
\* The Watson-Crick partner of a base; any other byte is its own
Partner(c) ==
  IF c = "A" THEN "T" ELSE IF c = "T" THEN "A"
  ELSE IF c = "C" THEN "G" ELSE IF c = "G" THEN "C" ELSE c

ReverseComplement(w) == [i \in 1..Len(w) |-> Partner(w[Len(w) + 1 - i])]

\* a is before b in byte-wise lexicographic order, a and b of one length
LexLess(a, b) ==
  \E i \in 1..Len(a) :
    /\ Byte[a[i]] < Byte[b[i]]
    /\ \A j \in 1..(i - 1) : a[j] = b[j]

\* C5: decoding the key a k-mer over {A,C,G,T} was counted under gives back
\* that k-mer.
C5_DecodeInvertsHash ==
  (call.decoded # <<>> /\ \A i \in 1..Len(call.kmer) : call.kmer[i] \in {"A", "C", "G", "T"})
  => call.decoded = call.kmer

\* C6: a window and its reverse complement have the same canonical k-mer.
C6_OrientationSymmetry ==
  (call.canonical # <<>> /\ call.canonical_rev # <<>>)
  => call.canonical = call.canonical_rev

\* A window with a byte that is no base, which is not its reverse complement
C6_Witness ==
  /\ call.canonical # <<>>
  /\ call.canonical_rev # <<>>
  /\ Len(call.kmer) >= 2
  /\ \E i \in 1..Len(call.kmer) : call.kmer[i] = "N"
  /\ call.kmer # call.rev_comp

\* C8: canonical_kmer(w) is the smaller, byte-wise, of w and its reverse
\* complement, and w itself when the two are equal.
C8_CanonicalIsSmaller ==
  call.canonical # <<>> =>
    LET rc == ReverseComplement(call.kmer)
    IN  /\ call.canonical = IF LexLess(rc, call.kmer) THEN rc ELSE call.kmer
        /\ rc = call.kmer => call.canonical = call.kmer

\* The reverse complement is the smaller and holds a byte that is no base
C8_Witness ==
  /\ call.canonical # <<>>
  /\ call.canonical # call.kmer
  /\ \E i \in 1..Len(call.kmer) : call.kmer[i] = "N"
(***************************************************************************)
(* Properties of the histogram builder.                                    *)
(***************************************************************************)
RECURSIVE SumFrequencies(_)
SumFrequencies(v) == IF v = <<>> THEN 0 ELSE Head(v)[2] + SumFrequencies(Tail(v))

\* C9: the lines written are the pairs (count, number of tokens with that
\* count), one for each count of the table, in strictly ascending order of
\* count; the frequencies sum to the number of tokens.
C9_HistogramAscending ==
  pc = "done" =>
    /\ \A i \in 1..(Len(output) - 1) : output[i][1] < output[i + 1][1]
    /\ {output[i][1] : i \in 1..Len(output)}
         = {kmer_counts[t] : t \in DOMAIN kmer_counts}
    /\ \A i \in 1..Len(output) :
         output[i][2]
           = Cardinality({t \in DOMAIN kmer_counts : kmer_counts[t] = output[i][1]})
    /\ SumFrequencies(output) = Cardinality(DOMAIN kmer_counts)

\* The counts 1, 1, 2, 3, 3, 3 give (1,2), (2,1), (3,3)
C9_Witness ==
  /\ pc = "done"
  /\ kmer_counts = [t \in {Token(i) : i \in 1..6} |->
                      IF Len(t) <= 2 THEN 1 ELSE IF Len(t) = 3 THEN 2 ELSE 3]
  /\ output = << <<1, 2>>, <<2, 1>>, <<3, 3>> >>

\* main of histogram.rs holds the table read_kmer_counts_threaded returned
ReadReturned == pc \in {"histogram", "sort", "print", "done"}

\* The tokens of the lines ls
TokensOf(ls) == {split_whitespace(ls[i])[1] : i \in 1..Len(ls)}

\* The sum of the counts of the lines 1..i of ls whose token is t
RECURSIVE SumOf(_, _, _)
SumOf(ls, t, i) ==
  IF i = 0 THEN 0
  ELSE SumOf(ls, t, i - 1)
         + (IF split_whitespace(ls[i])[1] = t THEN parse(split_whitespace(ls[i])[2]).value
            ELSE 0)

\* C18: the table read_kmer_counts_threaded returns, and the histogram
\* written from it, depend on the lines alone, not on the number of workers
\* nor on the order of their merges: each token of the lines has the sum of
\* the counts of its lines, in whichever shards they are, and the histogram
\* is the ascending list of (count, number of tokens with that sum).
C18_TokenTableIndependentOfWorkers ==
  /\ ReadReturned =>
       /\ DOMAIN kmer_counts = TokensOf(lines)
       /\ \A t \in TokensOf(lines) : kmer_counts[t] = SumOf(lines, t, Len(lines))
  /\ pc = "done" =>
       /\ \A i \in 1..(Len(output) - 1) : output[i][1] < output[i + 1][1]
       /\ {output[i] : i \in 1..Len(output)}
            = {<<SumOf(lines, t, Len(lines)),
                 Cardinality({u \in TokensOf(lines) :
                                SumOf(lines, u, Len(lines)) = SumOf(lines, t, Len(lines))})>>
                 : t \in TokensOf(lines)}

\* The token A on two lines of the first shard and one of the second
C18_Witness ==
  /\ pc = "done"
  /\ num_threads = 2
  /\ lines = << <<"A", " ", "1">>, <<"A", " ", "2">>, <<"A", " ", "1">> >>
  /\ handles[1].thread_counts = (<<"A">> :> 3)
  /\ handles[2].thread_counts = (<<"A">> :> 1)
  /\ kmer_counts = (<<"A">> :> 4)
  /\ output = << <<4, 1>> >>
====
